---- MODULE Spec2Model ----
(***************************************************************************)
(* GoogleCL: the token store of googlecl/__init__.py and the option        *)
(* resolver, command dispatcher and interactive shell of google.py.        *)
(***************************************************************************)
EXTENDS Naturals, Sequences, FiniteSets, TLC

VARIABLES files, failed, lastOp, steps, res, pc, last

vars == <<files, failed, lastOp, steps, res, pc, last>>

(***************************************************************************)
(* Bounds of the model.                                                    *)
(***************************************************************************)
\* Token-store operations per behaviour.
MaxOps == 3

\* Command lines read by one interactive shell.
MaxLines == 2

(***************************************************************************)
(* Values.                                                                 *)
(***************************************************************************)
Users == {"alice", "bob"}

\* Service names as a caller may spell them.
ServiceNames == {"picasa", "Picasa", "docs"}

Tokens == {"tokA", "tokB"}

\* Python's None.
None == "None"

\* str.lower() on the service names of the model.
lower(s) == IF s = "Picasa" THEN "picasa" ELSE s

\* What pickle.load raises on a file it cannot load: a bad opcode (KeyError),
\* a short stack (IndexError), a class of a module that is not installed
\* (ImportError), a truncated or empty file (EOFError).
LoadErrors == {"KeyError", "IndexError", "ImportError", "EOFError"}

\* A Python dict from service name to token: a function on the keys it holds.
EmptyDict == [k \in {} |-> None]

DictSet(d, k, v) == [x \in (DOMAIN d) \cup {k} |-> IF x = k THEN v ELSE d[x]]

DictDel(d, k) == [x \in (DOMAIN d) \ {k} |-> d[x]]

\* A file of the data directory: whether it exists, the error pickle.load
\* raises on it ("none": it loads), and the pickles it holds in file order.
AbsentFile == [exists |-> FALSE, err |-> "none", pickles |-> <<>>]

BadFile(e) == [exists |-> TRUE, err |-> e, pickles |-> <<>>]

GoodFile(ps) == [exists |-> TRUE, err |-> "none", pickles |-> ps]

\* get_data_path(TOKENS_FILENAME_FORMAT % user): one record file per user.
\* The data directory is taken to exist or to be creatable.
get_data_path(user) == user

\* pickle.load(token_file): reads the first pickle of the file.
pickle_load(f) ==
  IF f.err # "none" THEN [exc |-> f.err, value |-> EmptyDict]
  ELSE [exc |-> "none", value |-> f.pickles[1]]

\* _move_failed_token_file: the file at new_path is replaced by the renamed
\* token file.
move_failed_token_file(st, path) ==
  [st EXCEPT !.failed = [st.failed EXCEPT ![path] = st.files[path]],
             !.files = [st.files EXCEPT ![path] = AbsentFile]]

\* A token-store state with the result of the call that produced it.
Outcome(st, r, e) == [files |-> st.files, failed |-> st.failed, ret |-> r, exc |-> e]

\* read_access_token(service, user).
read_access_token(st, service, user) ==
  LET token_path == get_data_path(user)
      f == st.files[token_path]
      ld == pickle_load(f)
  IN IF f.exists
       THEN IF ld.exc = "ImportError" THEN Outcome(st, None, "none")
            ELSE IF ld.exc # "none" THEN Outcome(st, None, ld.exc)
            ELSE IF lower(service) \in DOMAIN ld.value
                   THEN Outcome(st, ld.value[lower(service)], "none")
                   ELSE Outcome(st, None, "none")
       ELSE Outcome(st, None, "none")

\* What pickle.dump does on a file opened 'r+' and just read, with no seek in
\* between: the write lands behind the pickle that was read ("ok"), or fails
\* with IOError errno 0 ("errno0") or with another errno ("ioerr").
DumpOutcomes == {"ok", "errno0", "ioerr"}

\* remove_access_token(service, user).
remove_access_token(st, service, user, dump) ==
  LET token_path == get_data_path(user)
      f == st.files[token_path]
      ld == pickle_load(f)
  IN IF f.exists
       THEN IF ld.exc = "ImportError"
              THEN Outcome(move_failed_token_file(st, token_path), FALSE, "none")
            ELSE IF ld.exc # "none" THEN Outcome(st, FALSE, ld.exc)
            ELSE IF lower(service) \notin DOMAIN ld.value
                   THEN Outcome(st, FALSE, "none")
            ELSE IF dump = "ok"
                   THEN Outcome([st EXCEPT !.files[token_path] =
                                   GoodFile(<<f.pickles[1],
                                              DictDel(ld.value, lower(service))>>)],
                                TRUE, "none")
            ELSE IF dump = "errno0"
                   THEN Outcome(move_failed_token_file(st, token_path), FALSE, "none")
            ELSE Outcome(st, FALSE, "none")
       ELSE Outcome(st, FALSE, "none")

\* The load errors write_access_token catches.
WriteCaught == {"KeyError", "IndexError", "ImportError"}

\* The key write_access_token stores the token under.
WriteKey(service) == service

\* write_access_token(service, user, token).
write_access_token(st, service, user, token) ==
  LET token_path == get_data_path(user)
      f == st.files[token_path]
      ld == pickle_load(f)
      file_invalid == f.exists /\ ld.exc \in WriteCaught
      st1 == IF file_invalid THEN move_failed_token_file(st, token_path) ELSE st
      token_dict == IF f.exists /\ ld.exc = "none" THEN ld.value ELSE EmptyDict
  IN IF f.exists /\ ld.exc # "none" /\ ~file_invalid
       THEN Outcome(st, None, ld.exc)
       ELSE Outcome([st1 EXCEPT !.files[token_path] =
                       GoodFile(<<DictSet(token_dict, WriteKey(service), token)>>)],
                    None, "none")

(***************************************************************************)
(* google.py: fill_out_options.                                            *)
(***************************************************************************)
\* The options of setup_parser the model follows, in the order dir(options)
\* lists them.
FieldOrder == <<"query", "summary", "tags", "title", "user">>

OptionFields == {FieldOrder[i] : i \in DOMAIN FieldOrder}

\* A task's requirement for one field: never, always, only while another
\* field is empty ("unless"), or only once another field is set ("when").
Rule(kind, on) == [kind |-> kind, on |-> on]

\* Task.requires(attr, options).
requires(task, attr, options) ==
  LET r == task.rules[attr]
  IN CASE r.kind = "yes" -> TRUE
       [] r.kind = "unless" -> options[r.on] = ""
       [] r.kind = "when" -> options[r.on] # ""
       [] OTHER -> FALSE

\* The files a summary option may name: path -> text.
NoFiles == [p \in {} |-> ""]

CwdNotes == [p \in {"notes.txt"} |-> "text of notes.txt"]

HomeNotes == [p \in {"/home/me/notes.txt"} |-> "text of the home notes"]

TildeDirNotes == [p \in {"~/notes.txt", "/home/me/notes.txt"} |->
                    IF p = "~/notes.txt" THEN "text under a directory named ~"
                    ELSE "text of the home notes"]

FileSystems == {NoFiles, CwdNotes, HomeNotes, TildeDirNotes}

\* os.path.expanduser.
expanduser(p) == IF p = "~/notes.txt" THEN "/home/me/notes.txt" ELSE p

\* os.path.exists.
path_exists(fs, p) == p \in DOMAIN fs

\* The path fill_out_options opens to read the summary.
SummaryOpenPath(summary) == summary

\* urllib.quote_plus on the query values of the model.
quote_plus(q) == IF q = "a b" THEN "a+b" ELSE q

\* util.get_config_option(service_header, attr): the configured default or "".
get_config_option(env, attr) == IF attr \in env.configured THEN "from config" ELSE ""

\* Lines 76-82: the one pass over missing_attributes, from index i on.
RECURSIVE FillMissing(_, _, _, _, _)
FillMissing(task, env, missing, options, i) ==
  IF i > Len(missing) THEN options
  ELSE LET attr == missing[i]
           value == get_config_option(env, attr)
           filled == IF requires(task, attr, options)
                       THEN [options EXCEPT ![attr] =
                               IF value # "" THEN value ELSE env.answer]
                       ELSE options
       IN FillMissing(task, env, missing, filled, i + 1)

\* Lines 73-75: the option names whose value is empty, in dir() order.
missing_attributes(options) ==
  SelectSeq(FieldOrder, LAMBDA a : options[a] = "")

\* fill_out_options(service_header, task, options, logged_in): the options it
\* leaves and the exception it raises ("none": it returns).
fill_out_options(task, options, logged_in, env) ==
  LET o1 == IF ~logged_in /\ requires(task, "user", options) /\ options["user"] = ""
              THEN IF env.use_default_username /\ env.email # ""
                     THEN [options EXCEPT !["user"] = env.email]
                     ELSE [options EXCEPT !["user"] = env.answer]
              ELSE options
      readsFile == o1["summary"] # "" /\ path_exists(env.fs, expanduser(o1["summary"]))
      openPath == SummaryOpenPath(o1["summary"])
      o2 == IF readsFile /\ path_exists(env.fs, openPath)
              THEN [o1 EXCEPT !["summary"] = env.fs[openPath]]
              ELSE o1
      o3 == FillMissing(task, env, missing_attributes(o2), o2, 1)
      o4 == [f \in OptionFields \cup {"encoded_query"} |->
               IF f = "encoded_query"
                 THEN IF o3["query"] # "" THEN quote_plus(o3["query"]) ELSE None
                 ELSE o3[f]]
  IN IF readsFile /\ ~path_exists(env.fs, openPath)
       THEN [options |-> o1, exc |-> "IOError"]
       ELSE [options |-> o4, exc |-> "none"]

(***************************************************************************)
(* google.py: run_once.                                                    *)
(***************************************************************************)
\* The services whose module googlecl.<service>.service can be imported.
ServiceModules == {"picasa", "docs"}

\* __import__('googlecl.' + name + '.service', ...): the module is found, or
\* ImportError is raised.
module_found(name) == name \in ServiceModules

NoRules == [f \in OptionFields |-> Rule("no", "")]

\* service_module.tasks: the task catalog of a service.
tasks(service) ==
  IF service = "picasa"
    THEN [n \in {"post", "list"} |->
            IF n = "post"
              THEN [rules |-> [NoRules EXCEPT !["title"] = Rule("yes", "")],
                    login_required |-> TRUE]
              ELSE [rules |-> [NoRules EXCEPT !["user"] = Rule("yes", "")],
                    login_required |-> FALSE]]
    ELSE [n \in {"post"} |->
            [rules |-> [NoRules EXCEPT !["title"] = Rule("yes", "")],
             login_required |-> TRUE]]

\* util.read_creds(): the user of the credentials file.
DefaultUser == "alice"

\* util.read_auth_token(service), util.remove_auth_token(service) and
\* util.write_auth_token(service, token): the token store for the default user.
read_auth_token(st, service) == read_access_token(st, service, DefaultUser)

remove_auth_token(st, service, dump) ==
  remove_access_token(st, service, DefaultUser, dump)

write_auth_token(st, service, token) ==
  write_access_token(st, service, DefaultUser, token)

\* Line 186: the cached token is looked up only for the default user.
UsesCachedToken(options) == options["user"] = ""

\* A slip of line 210: the token of every login is written.
CachesEveryToken(options) == TRUE

\* Line 210: the token of a login is written only for the default user.
CachesNewToken(options) == options["user"] = ""

\* A slip of lines 212-214: the command goes on after a failed login.
LoginNeverAborts(logged_in) == FALSE

\* Lines 212-214: a login that failed ends the command.
LoginAborts(logged_in) == ~logged_in

\* Lines 175-180: the lookup of the task in the catalog succeeds.
TaskKnown(catalog, task_name) == task_name \in DOMAIN catalog

\* The result of a step of run_once: the token store, the events so far, the
\* client's logged_in flag, the cached token found invalid and the exception
\* raised ("none": none).
Step(st, events, logged_in, invalid, exc) ==
  [files |-> st.files, failed |-> st.failed, events |-> events,
   logged_in |-> logged_in, invalid |-> invalid, exc |-> exc]

StoreOf(r) == [files |-> r.files, failed |-> r.failed]

\* Lines 186-199: the cached token is read, installed, validated remotely and
\* removed when invalid.
CachedTokenLogin(st, options, service, env) ==
  IF ~UsesCachedToken(options) THEN Step(st, <<>>, FALSE, None, "none")
  ELSE LET rd == read_auth_token(st, service)
       IN IF rd.exc # "none" THEN Step(st, <<"read_token">>, FALSE, None, rd.exc)
          ELSE IF rd.ret = None THEN Step(st, <<"read_token">>, FALSE, None, "none")
          ELSE IF rd.ret \in env.valid
                 THEN Step(st, <<"read_token", "set_token", "token_valid">>,
                           TRUE, None, "none")
          ELSE LET rm == remove_auth_token(st, service, env.dump)
               IN Step(StoreOf(rm),
                       <<"read_token", "set_token", "token_invalid", "remove_token">>,
                       FALSE, rd.ret, rm.exc)

\* Lines 200-214: util.try_login and the caching of the token it obtained.
\* env.issued is the token the server issues (None: the login fails).
CredentialLogin(c, options, service, env) ==
  IF c.exc # "none" \/ c.logged_in THEN c
  ELSE LET logged_in == env.issued # None
           events == c.events \o <<"try_login">>
       IN IF LoginAborts(logged_in)
            THEN Step(StoreOf(c), events \o <<"login_failed">>, logged_in,
                      c.invalid, "none")
          ELSE IF CachesNewToken(options)
            THEN LET wr == write_auth_token(StoreOf(c), service, env.issued)
                 IN Step(StoreOf(wr), events \o <<"write_token">>, logged_in,
                         c.invalid, wr.exc)
          ELSE Step(StoreOf(c), events, logged_in, c.invalid, "none")

\* What run_once leaves: the token store, how the command ended, the exception
\* that left run_once, the events in order, the client's logged_in flag when
\* the command ended and the cached token found invalid.
Done(r, outcome) ==
  [files |-> r.files, failed |-> r.failed, outcome |-> outcome, exc |-> r.exc,
   events |-> r.events, logged_in |-> r.logged_in, invalid |-> r.invalid]

\* The preferences, prompt answers and files fill_out_options sees in a
\* dispatched command.
ResolveEnv == [use_default_username |-> TRUE, email |-> DefaultUser,
               configured |-> {}, answer |-> "typed", fs |-> CwdNotes]

\* What raw_input raises instead of returning a line: end of input, or the
\* user's interrupt.
PromptErrors == {"EOFError", "KeyboardInterrupt"}

\* A slip of line 218: option resolution is told the client is not logged in.
FillAnonymous(logged_in) == FALSE

\* Line 218: the logged_in argument of fill_out_options is client.logged_in.
FillLoggedIn(logged_in) == logged_in

\* The event that records the logged_in argument of fill_out_options.
FillFlag(logged_in) == IF logged_in THEN "logged_in=True" ELSE "logged_in=False"

\* Lines 182-220: login, option resolution and the task handler. A prompt of
\* fill_out_options that raises (env.prompt) ends run_once with that exception.
LoginFillRun(st, options, service, task, env) ==
  LET c == IF task.login_required
             THEN CredentialLogin(CachedTokenLogin(st, options, service, env),
                                  options, service, env)
             ELSE Step(st, <<>>, FALSE, None, "none")
      ev == <<"import", "task_found">> \o c.events
  IN IF c.exc # "none" THEN Done([c EXCEPT !.events = ev], "raised")
     ELSE IF Len(c.events) > 0 /\ c.events[Len(c.events)] = "login_failed"
       THEN Done([c EXCEPT !.events = ev], "login_failed")
     ELSE LET arg == FillLoggedIn(c.logged_in)
              f == fill_out_options(task, options, arg,
                                    [ResolveEnv EXCEPT !.answer = env.prompt])
              fev == ev \o <<"fill", FillFlag(arg)>>
              prompted == \E a \in OptionFields : f.options[a] = env.prompt
          IN IF env.prompt \in PromptErrors /\ prompted
               THEN Done([c EXCEPT !.events = fev, !.exc = env.prompt], "raised")
             ELSE IF f.exc # "none"
               THEN Done([c EXCEPT !.events = fev, !.exc = f.exc], "raised")
             ELSE Done([c EXCEPT !.events = fev \o <<"run">>], "ran")

\* run_once(options, args).
run_once(st, options, args, env) ==
  LET none == Step(st, <<>>, FALSE, None, "none")
  IN IF Len(args) = 0
       THEN Done([none EXCEPT !.exc = "UnboundLocalError"], "raised")
     ELSE IF Len(args) = 1
       THEN IF args[1] = "help" THEN Done(none, "general_help")
            ELSE Done(none, "usage")
     ELSE IF args[1] = "help"
       THEN IF module_found(args[2])
              THEN Done([none EXCEPT !.events = <<"import">>], "service_help")
              ELSE Done([none EXCEPT !.exc = "ImportError"], "raised")
     ELSE IF ~module_found(args[1])
       THEN Done([none EXCEPT !.exc = "ImportError"], "raised")
     ELSE IF ~TaskKnown(tasks(args[1]), args[2])
       THEN Done([none EXCEPT !.events = <<"import">>], "unknown_task")
     ELSE LoginFillRun(st, options, args[1], tasks(args[1])[args[2]], env)

(***************************************************************************)
(* The token store on its own: any sequence of reads, writes and removes.  *)
(***************************************************************************)
Store == [files |-> files, failed |-> failed]

NoOp == [name |-> "none", service |-> "", user |-> "", token |-> None,
         ret |-> None, exc |-> "none", before |-> AbsentFile]

\* Records a caller may find on disk.
InitDicts == {EmptyDict,
              [k \in {"picasa"} |-> "tokA"],
              [k \in {"picasa", "docs"} |-> IF k = "picasa" THEN "tokA" ELSE "tokB"]}

InitFiles == {AbsentFile} \cup {BadFile(e) : e \in LoadErrors}
             \cup {GoodFile(<<d>>) : d \in InitDicts}

NoRes == [phase |-> "idle"]

\* What the last line or command did: the line's kind, whether the shell read
\* it, the arguments and the user option, how run_once ended, and the token
\* store before it.
LastOf(kind, interactive, args, user, r, before) ==
  [kind |-> kind, interactive |-> interactive, args |-> args, user |-> user,
   outcome |-> r.outcome, exc |-> r.exc, events |-> r.events,
   logged_in |-> r.logged_in, invalid |-> r.invalid, before |-> before]

NotRun == [outcome |-> "none", exc |-> "none", events |-> <<>>,
           logged_in |-> FALSE, invalid |-> None]

NoStore == [files |-> [u \in Users |-> AbsentFile], failed |-> [u \in Users |-> AbsentFile]]

NoCommand == LastOf("none", FALSE, <<>>, "", NotRun, NoStore)

InitStore ==
  /\ files \in [Users -> InitFiles]
  /\ failed = [u \in Users |-> AbsentFile]
  /\ lastOp = NoOp
  /\ steps = 0
  /\ res = NoRes
  /\ pc = "start"
  /\ last = NoCommand

Apply(name, service, user, token, out) ==
  /\ steps < MaxOps
  /\ steps' = steps + 1
  /\ files' = out.files
  /\ failed' = out.failed
  /\ lastOp' = [name |-> name, service |-> service, user |-> user, token |-> token,
                ret |-> out.ret, exc |-> out.exc, before |-> files[get_data_path(user)]]
  /\ UNCHANGED <<res, pc, last>>

Read ==
  \E s \in ServiceNames, u \in Users :
    Apply("read", s, u, None, read_access_token(Store, s, u))

Write ==
  \E s \in ServiceNames, u \in Users, t \in Tokens :
    Apply("write", s, u, t, write_access_token(Store, s, u, t))

Remove ==
  \E s \in ServiceNames, u \in Users, d \in DumpOutcomes :
    Apply("remove", s, u, None, remove_access_token(Store, s, u, d))

NextStore == Read \/ Write \/ Remove

SpecStore == InitStore /\ [][NextStore]_vars

(***************************************************************************)
(* google.py: main and run_interactive, dispatching to run_once.           *)
(***************************************************************************)
\* The positional arguments of a command line.
ArgLists == {<<>>, <<"help">>, <<"picasa">>, <<"help", "picasa">>, <<"help", "orkut">>,
             <<"picasa", "post">>, <<"picasa", "list">>, <<"picasa", "bogus">>,
             <<"docs", "post">>, <<"orkut", "post">>, <<"picasa", "post", "cat.jpg">>}

\* The options of a command line: --user given or not.
CommandOptions == {[f \in OptionFields |-> IF f = "user" THEN u ELSE ""] : u \in {"", "bob"}}

\* What the server and the file system do during one command: the tokens the
\* server holds valid, the token a login issues (None: the login fails) and
\* the outcome of remove_access_token's dump.
CommandEnvs == {e \in [valid : SUBSET Tokens, issued : Tokens \cup {None},
                       dump : DumpOutcomes,
                       prompt : {"typed"} \cup PromptErrors] :
                  e.issued \in e.valid \cup {None}}

\* main, lines 289-295: the exceptions caught around run_interactive.
shell_catches(exc) == exc \in {"KeyboardInterrupt", "EOFError"}

\* main, lines 297-300: the exception caught around run_once.
once_catches(exc) == exc = "KeyboardInterrupt"

\* Where the shell is after a line that raised exc ("none": nothing raised).
AfterLine(exc) ==
  IF exc = "none" THEN "prompt"
  ELSE IF shell_catches(exc) THEN "exited" ELSE "crashed"

InitShell ==
  /\ files \in {f \in [Users -> InitFiles] : f["bob"] = AbsentFile}
  /\ failed = [u \in Users |-> AbsentFile]
  /\ lastOp = NoOp
  /\ steps = 0
  /\ res = NoRes
  /\ pc = "start"
  /\ last = NoCommand

\* main, lines 296-300: arguments on the command line, one run_once.
OneShot ==
  /\ pc = "start"
  /\ \E args \in ArgLists \ {<<>>}, options \in CommandOptions, env \in CommandEnvs :
       LET r == run_once(Store, options, args, env)
       IN /\ files' = r.files
          /\ failed' = r.failed
          /\ last' = LastOf("command", FALSE, args, options["user"], r, Store)
          /\ pc' = IF r.exc = "none" \/ once_catches(r.exc) THEN "exited" ELSE "crashed"
  /\ UNCHANGED <<lastOp, steps, res>>

\* main, lines 288-290: no arguments, the interactive shell starts.
EnterShell ==
  /\ pc = "start"
  /\ pc' = "prompt"
  /\ UNCHANGED <<files, failed, lastOp, steps, res, last>>

\* run_interactive, lines 127-128: an empty line.
EmptyLine ==
  /\ pc = "prompt" /\ steps < MaxLines
  /\ steps' = steps + 1
  /\ last' = LastOf("empty", TRUE, <<>>, "", NotRun, Store)
  /\ UNCHANGED <<files, failed, lastOp, res, pc>>

\* run_interactive, lines 129-130: the line "?".
HelpLine ==
  /\ pc = "prompt" /\ steps < MaxLines
  /\ steps' = steps + 1
  /\ last' = LastOf("help", TRUE, <<>>, "", NotRun, Store)
  /\ UNCHANGED <<files, failed, lastOp, res, pc>>

\* run_interactive, lines 131-132: the line "quit".
QuitLine ==
  /\ pc = "prompt"
  /\ pc' = "exited"
  /\ last' = LastOf("quit", TRUE, <<>>, "", NotRun, Store)
  /\ UNCHANGED <<files, failed, lastOp, steps, res>>

\* raw_input raises EOFError at end of input; main, lines 294-295.
EndOfInput ==
  /\ pc = "prompt"
  /\ pc' = AfterLine("EOFError")
  /\ last' = LastOf("eof", TRUE, <<>>, "", NotRun, Store)
  /\ UNCHANGED <<files, failed, lastOp, steps, res>>

\* KeyboardInterrupt at the prompt; main, lines 291-293.
Interrupt ==
  /\ pc = "prompt"
  /\ pc' = AfterLine("KeyboardInterrupt")
  /\ last' = LastOf("interrupt", TRUE, <<>>, "", NotRun, Store)
  /\ UNCHANGED <<files, failed, lastOp, steps, res>>

\* run_interactive, lines 133-136: any other line is parsed and dispatched; an
\* exception run_once raises leaves run_interactive and main.
CommandLine ==
  /\ pc = "prompt" /\ steps < MaxLines
  /\ steps' = steps + 1
  /\ \E args \in ArgLists, options \in CommandOptions, env \in CommandEnvs :
       LET r == run_once(Store, options, args, env)
       IN /\ files' = r.files
          /\ failed' = r.failed
          /\ last' = LastOf("command", TRUE, args, options["user"], r, Store)
          /\ pc' = AfterLine(r.exc)
  /\ UNCHANGED <<lastOp, res>>

\* run_interactive, line 135: parser.parse_args on a line with an option the
\* parser does not know, or with -h, prints the usage and raises SystemExit;
\* run_once is not called and main does not catch it: the process exits.
RejectedLine ==
  /\ pc = "prompt" /\ steps < MaxLines
  /\ steps' = steps + 1
  /\ pc' = "exited"
  /\ last' = LastOf("rejected", TRUE, <<>>, "", [NotRun EXCEPT !.exc = "SystemExit"], Store)
  /\ UNCHANGED <<files, failed, lastOp, res>>

\* main, line 287: parser.parse_args exits on a command line it rejects.
UsageExit ==
  /\ pc = "start"
  /\ pc' = "exited"
  /\ last' = LastOf("rejected", FALSE, <<>>, "", [NotRun EXCEPT !.exc = "SystemExit"], Store)
  /\ UNCHANGED <<files, failed, lastOp, steps, res>>

Next ==
  \/ OneShot
  \/ EnterShell
  \/ EmptyLine
  \/ HelpLine
  \/ QuitLine
  \/ EndOfInput
  \/ Interrupt
  \/ CommandLine
  \/ RejectedLine
  \/ UsageExit

Spec == InitShell /\ [][Next]_vars

(***************************************************************************)
(* Claims about the token store (checked under SpecStore).                 *)
(***************************************************************************)
\* The record file of the last operation's user loaded before the operation.
WellFormedOrAbsent(f) == f.err = "none"

\* C1: a write(service, user, token) from an absent or well-formed record,
\* followed by read(service, user) with the same arguments, returns exactly
\* that token, in whatever letter case the service name is passed.
C1_WriteThenReadReturnsToken ==
  (lastOp.name = "write" /\ WellFormedOrAbsent(lastOp.before))
    => LET r == read_access_token(Store, lastOp.service, lastOp.user)
       IN r.exc = "none" /\ r.ret = lastOp.token

\* C2: a remove(service, user) on a record that holds a token for the service,
\* followed by read(service, user), returns absent: the record read loads from
\* the file no longer contains the service's token.
C2_RemoveThenReadAbsent ==
  (/\ lastOp.name = "remove"
   /\ lastOp.before.exists
   /\ lastOp.before.err = "none"
   /\ lower(lastOp.service) \in DOMAIN lastOp.before.pickles[1])
    => LET r == read_access_token(Store, lastOp.service, lastOp.user)
       IN r.exc = "none" /\ r.ret = None

\* C3: a write on a record file that fails to load, whatever the load failure,
\* does not raise, renames the bad file to the .failed path, and leaves a
\* fresh record that contains only the newly written token.
C3_WriteOnCorruptRecordHeals ==
  (lastOp.name = "write" /\ lastOp.before.exists /\ lastOp.before.err # "none")
    => /\ lastOp.exc = "none"
       /\ failed[get_data_path(lastOp.user)] = lastOp.before
       /\ files[get_data_path(lastOp.user)].exists
       /\ files[get_data_path(lastOp.user)].err = "none"
       /\ LET d == files[get_data_path(lastOp.user)].pickles[1]
          IN Cardinality(DOMAIN d) = 1 /\ \A k \in DOMAIN d : d[k] = lastOp.token

(***************************************************************************)
(* The option resolver on its own: one call of fill_out_options on any     *)
(* task, options record and environment of the bounded sets below.         *)
(***************************************************************************)
\* The requirement rules a task may declare for each field.
FieldRules(f) ==
  CASE f = "tags" -> {Rule("no", ""), Rule("yes", ""),
                      Rule("unless", "title"), Rule("when", "title")}
    [] f = "title" -> {Rule("no", ""), Rule("yes", ""),
                       Rule("unless", "tags"), Rule("when", "tags")}
    [] f = "query" -> {Rule("no", "")}
    [] OTHER -> {Rule("no", ""), Rule("yes", "")}

TaskRules == {r \in [OptionFields -> UNION {FieldRules(f) : f \in OptionFields}] :
                \A f \in OptionFields : r[f] \in FieldRules(f)}

ResolveTasks == {[rules |-> r, login_required |-> TRUE] : r \in TaskRules}

\* The values the command line may give each option ("": not given).
FieldValues(f) ==
  CASE f = "query" -> {"", "a b"}
    [] f = "summary" -> {"", "a literal summary", "notes.txt", "~/notes.txt"}
    [] f = "user" -> {"", "bob"}
    [] OTHER -> {"", "given"}

OptionsIn == {o \in [OptionFields -> UNION {FieldValues(f) : f \in OptionFields}] :
                \A f \in OptionFields : o[f] \in FieldValues(f)}

\* The preferences file, the cached credentials, what the user types at a
\* prompt and the files on disk.
ResolveEnvs ==
  [use_default_username : BOOLEAN, email : {"", "alice"},
   configured : {{}, {"title"}}, answer : {"", "typed"}, fs : FileSystems]

InitResolve ==
  /\ files = [u \in Users |-> AbsentFile]
  /\ failed = [u \in Users |-> AbsentFile]
  /\ lastOp = NoOp
  /\ steps = 0
  /\ res \in [phase : {"input"}, task : ResolveTasks, options : OptionsIn,
              logged_in : BOOLEAN, env : ResolveEnvs]
  /\ pc = "start"
  /\ last = NoCommand

Resolve ==
  /\ res.phase = "input"
  /\ LET r == fill_out_options(res.task, res.options, res.logged_in, res.env)
     IN res' = [phase |-> "done", task |-> res.task, options |-> res.options,
                logged_in |-> res.logged_in, env |-> res.env,
                out |-> r.options, exc |-> r.exc]
  /\ UNCHANGED <<files, failed, lastOp, steps, pc, last>>

NextResolve == Resolve

SpecResolve == InitResolve /\ [][NextResolve]_vars

(***************************************************************************)
(* Claims about the option resolver (checked under SpecResolve).           *)
(***************************************************************************)
\* C8: after option resolution completes, every field the task's requires
\* predicate flags as required, evaluated against the final options, is
\* non-empty, given non-empty config defaults and prompt answers; for every
\* requires predicate, also one that makes a field's requirement depend on
\* another field's value.
C8_RequiredFieldsFilled ==
  (res.phase = "done" /\ res.exc = "none" /\ res.env.answer # "")
    => \A f \in OptionFields :
         requires(res.task, f, res.out) => res.out[f] # ""

\* C10: a summary option that names an existing file with text T, written
\* literally or with a ~ prefix that expands to the file, ends as T; a summary
\* that is not the path of an existing file is left unchanged.
C10_SummaryFileRead ==
  (res.phase = "done" /\ res.options["summary"] # "")
    => IF path_exists(res.env.fs, expanduser(res.options["summary"]))
         THEN /\ res.exc = "none"
              /\ res.out["summary"] = res.env.fs[expanduser(res.options["summary"])]
         ELSE /\ res.exc = "none"
              /\ res.out["summary"] = res.options["summary"]

(***************************************************************************)
(* Claims about the dispatcher and the shell (checked under Spec).         *)
(***************************************************************************)
Has(events, e) == \E i \in DOMAIN events : events[i] = e

\* C4: a dispatch with fewer than two tokens (none, or one) returns without
\* raising, shows general help when the one token is "help" and the "must
\* specify service and task" message otherwise, and loads no module, attempts
\* no login and invokes no handler.
C4_FewTokensReturnNormally ==
  (last.kind = "command" /\ Len(last.args) < 2)
    => /\ last.exc = "none"
       /\ last.outcome = IF last.args = <<"help">> THEN "general_help" ELSE "usage"
       /\ last.events = <<>>

\* The last command named a service that is not recognized.
UnknownServiceCommand ==
  /\ last.kind = "command"
  /\ Len(last.args) >= 2
  /\ last.args[1] # "help"
  /\ ~module_found(last.args[1])

\* C5: a command whose service is not recognized attempts no login and invokes
\* no task, and the interactive shell keeps running: it prompts for the next
\* line.
C5_UnknownServiceKeepsShellRunning ==
  UnknownServiceCommand
    => /\ ~Has(last.events, "try_login")
       /\ ~Has(last.events, "read_token")
       /\ ~Has(last.events, "run")
       /\ last.interactive => pc = "prompt"

\* The last command named a service and a task of its catalog.
KnownTaskCommand ==
  /\ last.kind = "command"
  /\ Len(last.args) >= 2
  /\ last.args[1] # "help"
  /\ module_found(last.args[1])
  /\ last.args[2] \in DOMAIN tasks(last.args[1])

\* C6: the task handler is invoked only for a task of the loaded service's
\* catalog and, when the task requires login, with the client logged in; an
\* unknown task name or a failed login ends the command with a message,
\* without option resolution and without the handler.
C6_HandlerOnlyForKnownTaskLoggedIn ==
  last.kind = "command"
    => /\ Has(last.events, "run")
            => /\ KnownTaskCommand
               /\ tasks(last.args[1])[last.args[2]].login_required => last.logged_in
       /\ (Has(last.events, "try_login") /\ ~last.logged_in)
            => /\ last.outcome = "login_failed"
               /\ ~Has(last.events, "fill") /\ ~Has(last.events, "run")
       /\ (/\ Len(last.args) >= 2 /\ last.args[1] # "help"
           /\ module_found(last.args[1])
           /\ last.args[2] \notin DOMAIN tasks(last.args[1]))
            => /\ last.outcome = "unknown_task"
               /\ ~Has(last.events, "fill") /\ ~Has(last.events, "run")

\* A login-required task ran after a credential login.
C6_Witness ==
  /\ KnownTaskCommand
  /\ tasks(last.args[1])[last.args[2]].login_required
  /\ Has(last.events, "try_login")
  /\ last.outcome = "ran"

\* C7: a dispatch whose options name an explicit user leaves the token store
\* as it found it, whatever the login's outcome: no token is read into the
\* client, written or removed.
C7_ExplicitUserNeverCaches ==
  (last.kind = "command" /\ last.user # "")
    => /\ files = last.before.files
       /\ failed = last.before.failed
       /\ ~Has(last.events, "read_token") /\ ~Has(last.events, "set_token")
       /\ ~Has(last.events, "write_token") /\ ~Has(last.events, "remove_token")

\* A command with --user logged in and ran its task.
C7_Witness ==
  /\ last.kind = "command" /\ last.user # ""
  /\ Has(last.events, "try_login")
  /\ last.logged_in
  /\ last.outcome = "ran"

\* C9: when the cached token of the default user fails remote validation, a
\* read of the store for that service at the end of the dispatch does not
\* return the token that was found invalid.
C9_InvalidTokenGoneFromStore ==
  (last.kind = "command" /\ last.invalid # None)
    => read_auth_token(Store, last.args[1]).ret # last.invalid

\* C11: the interactive shell ends normally on quit, on end of input and on
\* an interrupt (at the prompt or during a command), whatever lines preceded;
\* an empty line dispatches nothing and re-prompts; every other non-empty line
\* except "?" is dispatched to run_once.
C11_ShellTerminatesAndDispatches ==
  last.interactive
    => /\ last.kind \in {"quit", "eof", "interrupt"} => pc = "exited"
       /\ (last.kind = "command" /\ last.exc \in PromptErrors) => pc = "exited"
       /\ last.kind \in {"empty", "help"}
            => /\ pc = "prompt"
               /\ last.outcome = "none"
               /\ files = last.before.files
       /\ last.kind \in {"command", "rejected"} => last.outcome # "none"

(***************************************************************************)
(* The frame of write and remove (checked under SpecStore).                *)
(***************************************************************************)
\* The token store as it was before the last operation.
StoreBefore ==
  [files |-> [files EXCEPT ![get_data_path(lastOp.user)] = lastOp.before],
   failed |-> failed]

\* C12: on a well-formed record, write(A, user, token) and remove(A, user)
\* leave read(B, user) as it was for every other service B, and a remove for
\* a service that has no token returns false and leaves the record unchanged.
C12_OtherServicesUnchanged ==
  (/\ lastOp.name \in {"write", "remove"}
   /\ lastOp.before.exists
   /\ lastOp.before.err = "none")
    => /\ \A b \in ServiceNames :
            lower(b) # lower(lastOp.service)
              => read_access_token(Store, b, lastOp.user).ret
                   = read_access_token(StoreBefore, b, lastOp.user).ret
       /\ (/\ lastOp.name = "remove"
           /\ lower(lastOp.service) \notin DOMAIN lastOp.before.pickles[1])
            => /\ lastOp.ret = FALSE
               /\ files[get_data_path(lastOp.user)] = lastOp.before

(***************************************************************************)
(* The cached-token path of run_once (checked under Spec).                 *)
(***************************************************************************)
\* C13: when a login-required task is dispatched with no explicit user and
\* the cached token validates remotely, the client is marked logged in, no
\* credential login is attempted, the token store is neither written nor
\* removed from, and option resolution runs with logged_in = True before the
\* handler is invoked.
C13_ValidCachedTokenSkipsLogin ==
  (last.kind = "command" /\ Has(last.events, "token_valid"))
    => /\ KnownTaskCommand
       /\ tasks(last.args[1])[last.args[2]].login_required
       /\ last.user = ""
       /\ last.logged_in
       /\ ~Has(last.events, "try_login")
       /\ ~Has(last.events, "write_token") /\ ~Has(last.events, "remove_token")
       /\ files = last.before.files /\ failed = last.before.failed
       /\ Has(last.events, "fill") /\ Has(last.events, "logged_in=True")
       /\ ~Has(last.events, "logged_in=False")
       /\ \A i, j \in DOMAIN last.events :
            (last.events[i] = "run" /\ last.events[j] = "fill") => j < i
       /\ last.exc = "none"
            => /\ last.outcome = "ran"
               /\ last.events[Len(last.events)] = "run"

\* A command of the default user ran its task on a cached token that validated.
C13_Witness ==
  /\ last.kind = "command"
  /\ last.user = ""
  /\ Has(last.events, "token_valid")
  /\ last.outcome = "ran"

====
